---- MODULE Spec2Model ----
(***************************************************************************)
(* BoundedBuffer<T> of buffer.cpp: a std::queue<std::optional<T>> guarded  *)
(* by two mutexes (producer_mtx_ for push, consumer_mtx_ for pop) and two  *)
(* condition variables, driven by the producer / producer_done / consumer  *)
(* functions of the same file.                                             *)
(*                                                                         *)
(* q_ is touched by push under producer_mtx_ only and by pop under         *)
(* consumer_mtx_ only, so a push and a pop are not ordered with each other:*)
(* the queue is modelled at the level of the container's memory (a start   *)
(* and a finish position and the slots between them), q_.push(data) is the *)
(* two writes "construct the slot" and "advance finish", and a pop that    *)
(* runs between them can see them in either order.  A slot read before its *)
(* value was constructed yields an indeterminate optional<T>.              *)
(***************************************************************************)
EXTENDS Integers, Sequences, FiniteSets, TLC

\* ---------------------------------------------------------------- bounds
\* largest capacity passed to the constructor (main passes 10)
MaxCap == 2
\* payloads pushed by the producer thread (32 in producer)
NumPayloads == 1
\* iterations of the consumer's for loop (32 in consumer)
LoopLimit == 1

\* ---------------------------------------------------------------- values
\* std::nullopt, the EOS marker
EOS == -1
\* a slot whose optional<T> has not been constructed yet
Uninit == -2
\* the values producer pushes: i for 0 <= i < NumPayloads
Payloads == 0 .. (NumPayloads - 1)
\* what a read of an unconstructed slot can yield
Indeterminate == Payloads \cup {EOS}

\* threads calling push: the producer thread and main (through producer_done)
Pushers == {"producer", "main"}
\* threads calling pop (consumer_threads of main)
Consumers == {"c1", "c2"}
\* consumer_cnt of main
NumConsumers == Cardinality(Consumers)
\* a mutex nobody holds
NoThread == "none"

\* the values pushed by producer's loop, in order
ProducerScript == [i \in 1 .. NumPayloads |-> i - 1]
\* the values pushed by main's loop over producer_done, in order
MainScript == [i \in 1 .. NumConsumers |-> EOS]

VARIABLES
  cap_,            \* BoundedBuffer::cap_
  start,           \* number of slots removed from q_ (front position)
  finish,          \* number of slots appended to q_ (back position)
  mem,             \* the slots of q_: slot i is resident iff start < i <= finish
  producer_mtx_,   \* owner of producer_mtx_
  consumer_mtx_,   \* owner of consumer_mtx_
  script,          \* the arguments of the push calls each pushing thread makes
  limit,           \* bound of each consumer's for loop
  gate,            \* push calls of the producer thread made before consumers start
  ordered,         \* main's sleep outlasts the producer thread
  ppc,             \* position of each pushing thread
  k,               \* push calls each pushing thread has returned from
  wr,              \* slot the pushing thread inside q_.push writes
  cpc,             \* position of each consumer thread
  n,               \* loop counter i of each consumer
  data,            \* local `data` of each consumer (result of pop)
  lastSize,        \* last value returned by size()
  appended,        \* history: push calls in the order their slot was appended
  removed,         \* history: push calls in the order their slot was removed
  popped,          \* history: values read by pop, in the order of removal
  precedes         \* history: <<A, B>>, push call A returned before B began

vars == <<cap_, start, finish, mem, producer_mtx_, consumer_mtx_, script, limit,
          gate, ordered, ppc, k, wr, cpc, n, data, lastSize, appended, removed,
          popped, precedes>>

confVars == <<cap_, script, limit, gate, ordered>>
queueVars == <<start, finish, mem>>
pushVars == <<producer_mtx_, ppc, k, wr>>
popVars == <<consumer_mtx_, cpc, n, data>>
histVars == <<appended, removed, popped, precedes>>

\* number of push calls thread p makes
Pushes(p) == Len(script[p])
\* the argument of the push call thread p is in
Arg(p) == script[p][k[p] + 1]
\* the push call thread p is in
Call(p) == <<p, k[p] + 1>>
\* the argument of push call c
ArgOf(c) == script[c[1]][c[2]]
\* one slot for every push of a run
Slots == 1 .. (Pushes("producer") + Pushes("main"))

\* ------------------------------------------------------- std::queue q_
\* q_.size()
Size == finish - start
\* q_.empty()
Empty == finish = start
\* mutant: pop takes the newest slot
NewestSlot == finish
\* the slot q_.front() reads and q_.pop() removes
FrontSlot == start + 1
\* the slot q_.push() constructs
BackSlot == finish + 1
\* the value a read of slot i yields
Read(i) == IF mem[i] = Uninit THEN Indeterminate ELSE {mem[i]}
\* the values of the resident slots, front first
Resident == [i \in 1 .. Size |-> mem[start + i]]

\* mutant: the capacity test is off by one
NotFullOffByOne == Size <= cap_
\* predicate of producer_cv_.wait in push
NotFull == Size < cap_
\* predicate of consumer_cv_.wait in pop
NotEmpty == ~Empty

\* threads blocked in producer_cv_.wait
ProducerWaiters == {p \in Pushers : ppc[p] = "sleep"}
\* threads blocked in consumer_cv_.wait
ConsumerWaiters == {c \in Consumers : cpc[c] = "sleep"}

\* push calls that have returned
Returned == {c \in Pushers \X Slots : c[2] <= k[c[1]]}
\* the elements of a sequence
Range(s) == {s[i] : i \in 1 .. Len(s)}
\* s is an initial part of t
IsPrefix(s, t) == Len(s) <= Len(t) /\ s = SubSeq(t, 1, Len(s))

\* -------------------------------------------------------------- Init
\* the state of buf and of the threads right after BoundedBuffer(cap)
Fresh ==
  /\ start = 0
  /\ finish = 0
  /\ mem = [i \in Slots |-> Uninit]
  /\ producer_mtx_ = NoThread
  /\ consumer_mtx_ = NoThread
  /\ ppc = [p \in Pushers |-> "idle"]
  /\ k = [p \in Pushers |-> 0]
  /\ wr = [p \in Pushers |-> 0]
  /\ cpc = [c \in Consumers |-> "idle"]
  /\ n = [c \in Consumers |-> 0]
  /\ data = [c \in Consumers |-> Uninit]
  /\ lastSize = -1
  /\ appended = <<>>
  /\ removed = <<>>
  /\ popped = <<>>
  /\ precedes = {}

\* the threads of main: producer, the consumers, and main calling producer_done
Harness ==
  /\ cap_ \in 1 .. MaxCap
  /\ script = [p \in Pushers |-> IF p = "producer" THEN ProducerScript ELSE MainScript]
  /\ limit = [c \in Consumers |-> LoopLimit]
  /\ gate = 0

Init ==
  /\ Harness
  /\ ordered = FALSE
  /\ Fresh

\* ------------------------------------------------------------- push
\* main calls producer_done only after its sleep; the producer thread starts at once
MayBegin(p) ==
  (p = "main" /\ ordered) => ppc["producer"] = "done"

\* where a pushing thread goes once it has returned from j push calls
AfterPush(p, j) == IF j < Pushes(p) THEN "lock" ELSE "done"

\* history: thread p, back from j calls, begins its next call (if it has one)
\* after the calls that have returned by then
Began(p, j) ==
  IF j < Pushes(p)
    THEN {<<a, <<p, j + 1>>>> : a \in Returned \cup {<<p, i>> : i \in 1 .. j}}
    ELSE {}

\* the thread starts: the first call buf->push(...), or no call at all
PushBegin(p) ==
  /\ ppc[p] = "idle"
  /\ MayBegin(p)
  /\ ppc' = [ppc EXCEPT ![p] = AfterPush(p, 0)]
  /\ precedes' = precedes \cup Began(p, 0)
  /\ UNCHANGED <<confVars, queueVars, producer_mtx_, k, wr, popVars, lastSize,
                 appended, removed, popped>>

\* mutant: push enters without waiting for producer_mtx_
PushLockNoExclusion(p) ==
  /\ ppc[p] = "lock"
  /\ producer_mtx_' = p
  /\ ppc' = [ppc EXCEPT ![p] = "check"]
  /\ UNCHANGED <<confVars, queueVars, k, wr, popVars, lastSize, histVars>>

\* unique_lock lk(producer_mtx_), and the re-lock when wait returns
PushLock(p) ==
  /\ ppc[p] = "lock"
  /\ producer_mtx_ = NoThread
  /\ producer_mtx_' = p
  /\ ppc' = [ppc EXCEPT ![p] = "check"]
  /\ UNCHANGED <<confVars, queueVars, k, wr, popVars, lastSize, histVars>>

\* mutant: push appends without waiting for room
PushCheckNoWait(p) ==
  /\ ppc[p] = "check"
  /\ ppc' = [ppc EXCEPT ![p] = "append"]
  /\ wr' = [wr EXCEPT ![p] = BackSlot]
  /\ UNCHANGED <<confVars, queueVars, producer_mtx_, k, popVars, lastSize,
                 histVars>>

\* mutant: a push that finds the queue full returns without appending
PushCheckDrops(p) ==
  /\ ppc[p] = "check"
  /\ IF NotFull
       THEN /\ ppc' = [ppc EXCEPT ![p] = "append"]
            /\ wr' = [wr EXCEPT ![p] = BackSlot]
       ELSE /\ ppc' = [ppc EXCEPT ![p] = "unlock"]
            /\ wr' = wr
  /\ UNCHANGED <<confVars, queueVars, producer_mtx_, k, popVars, lastSize,
                 histVars>>

\* producer_cv_.wait evaluates its predicate
PushCheck(p) ==
  /\ ppc[p] = "check"
  /\ IF NotFull
       THEN /\ ppc' = [ppc EXCEPT ![p] = "append"]
            /\ wr' = [wr EXCEPT ![p] = BackSlot]
       ELSE /\ ppc' = [ppc EXCEPT ![p] = "block"]
            /\ wr' = wr
  /\ UNCHANGED <<confVars, queueVars, producer_mtx_, k, popVars, lastSize,
                 histVars>>

\* mutant: a push that finds the buffer full gives up waiting and appends
PushBlockGivesUp(p) ==
  /\ ppc[p] = "block"
  /\ ppc' = [ppc EXCEPT ![p] = "append"]
  /\ wr' = [wr EXCEPT ![p] = BackSlot]
  /\ UNCHANGED <<confVars, queueVars, producer_mtx_, k, popVars, lastSize,
                 histVars>>

\* producer_cv_.wait releases the mutex and blocks
PushBlock(p) ==
  /\ ppc[p] = "block"
  /\ producer_mtx_' = NoThread
  /\ ppc' = [ppc EXCEPT ![p] = "sleep"]
  /\ UNCHANGED <<confVars, queueVars, k, wr, popVars, lastSize, histVars>>

\* q_.push(data): the slot's value becomes visible to the consumers
PushStore(p) ==
  /\ ppc[p] \in {"append", "published"}
  /\ mem' = [mem EXCEPT ![wr[p]] = Arg(p)]
  /\ ppc' = [ppc EXCEPT ![p] = IF ppc[p] = "append" THEN "stored" ELSE "unlock"]
  /\ UNCHANGED <<confVars, start, finish, producer_mtx_, k, wr, popVars, lastSize,
                 histVars>>

\* q_.push(data): the new back position becomes visible to the consumers
PushPublish(p) ==
  /\ ppc[p] \in {"append", "stored"}
  /\ finish' = wr[p]
  /\ appended' = Append(appended, Call(p))
  /\ ppc' = [ppc EXCEPT ![p] = IF ppc[p] = "append" THEN "published" ELSE "unlock"]
  /\ UNCHANGED <<confVars, start, mem, producer_mtx_, k, wr, popVars, lastSize,
                 removed, popped, precedes>>

\* lk.unlock()
PushUnlock(p) ==
  /\ ppc[p] = "unlock"
  /\ producer_mtx_' = NoThread
  /\ wr' = [wr EXCEPT ![p] = 0]
  /\ ppc' = [ppc EXCEPT ![p] = "notify"]
  /\ UNCHANGED <<confVars, queueVars, k, popVars, lastSize, histVars>>

\* consumer_cv_.notify_all(); push returns and the caller's loop goes on
PushNotify(p) ==
  /\ ppc[p] = "notify"
  /\ cpc' = [c \in Consumers |-> IF cpc[c] = "sleep" THEN "lock" ELSE cpc[c]]
  /\ k' = [k EXCEPT ![p] = k[p] + 1]
  /\ ppc' = [ppc EXCEPT ![p] = AfterPush(p, k[p] + 1)]
  /\ precedes' = precedes \cup Began(p, k[p] + 1)
  /\ UNCHANGED <<confVars, queueVars, producer_mtx_, wr, consumer_mtx_, n, data,
                 lastSize, appended, removed, popped>>

\* -------------------------------------------------------------- pop
\* push call j of the producer thread has been made: it returned or it waits
Attempted(j) ==
  \/ k["producer"] >= j
  \/ k["producer"] = j - 1 /\ ppc["producer"] \in {"block", "sleep"}

\* where a consumer goes after i payloads
AfterPop(c, i) == IF i < limit[c] THEN "lock" ELSE "done"

\* the consumer thread starts: the first call buf->pop(), or no call at all
PopBegin(c) ==
  /\ cpc[c] = "idle"
  /\ Attempted(gate)
  /\ cpc' = [cpc EXCEPT ![c] = AfterPop(c, 0)]
  /\ UNCHANGED <<confVars, queueVars, pushVars, consumer_mtx_, n, data, lastSize,
                 histVars>>

\* mutant: pop locks the mutex of push as well, one lock for both sides
PopLockGlobal(c) ==
  /\ cpc[c] = "lock"
  /\ consumer_mtx_ = NoThread
  /\ producer_mtx_ = NoThread
  /\ consumer_mtx_' = c
  /\ cpc' = [cpc EXCEPT ![c] = "check"]
  /\ UNCHANGED <<confVars, queueVars, pushVars, n, data, lastSize, histVars>>

\* unique_lock lk(consumer_mtx_), and the re-lock when wait returns
PopLock(c) ==
  /\ cpc[c] = "lock"
  /\ consumer_mtx_ = NoThread
  /\ consumer_mtx_' = c
  /\ cpc' = [cpc EXCEPT ![c] = "check"]
  /\ UNCHANGED <<confVars, queueVars, pushVars, n, data, lastSize, histVars>>

\* consumer_cv_.wait evaluates its predicate
PopCheck(c) ==
  /\ cpc[c] = "check"
  /\ cpc' = [cpc EXCEPT ![c] = IF NotEmpty THEN "front" ELSE "block"]
  /\ UNCHANGED <<confVars, queueVars, pushVars, consumer_mtx_, n, data, lastSize,
                 histVars>>

\* consumer_cv_.wait releases the mutex and blocks
PopBlock(c) ==
  /\ cpc[c] = "block"
  /\ consumer_mtx_' = NoThread
  /\ cpc' = [cpc EXCEPT ![c] = "sleep"]
  /\ UNCHANGED <<confVars, queueVars, pushVars, n, data, lastSize, histVars>>

\* auto data = q_.front()
PopFront(c) ==
  /\ cpc[c] = "front"
  /\ \E v \in Read(FrontSlot) : data' = [data EXCEPT ![c] = v]
  /\ cpc' = [cpc EXCEPT ![c] = "pop"]
  /\ UNCHANGED <<confVars, queueVars, pushVars, consumer_mtx_, n, lastSize,
                 histVars>>

\* q_.pop()
PopRemove(c) ==
  /\ cpc[c] = "pop"
  /\ removed' = Append(removed, appended[FrontSlot])
  /\ popped' = Append(popped, data[c])
  /\ start' = FrontSlot
  /\ cpc' = [cpc EXCEPT ![c] = "unlock"]
  /\ UNCHANGED <<confVars, finish, mem, pushVars, consumer_mtx_, n, data, lastSize,
                 appended, precedes>>

\* lk.unlock()
PopUnlock(c) ==
  /\ cpc[c] = "unlock"
  /\ consumer_mtx_' = NoThread
  /\ cpc' = [cpc EXCEPT ![c] = "notify"]
  /\ UNCHANGED <<confVars, queueVars, pushVars, n, data, lastSize, histVars>>

\* producer_cv_.notify_all(); pop returns and consumer tests data.has_value()
PopNotify(c) ==
  /\ cpc[c] = "notify"
  /\ ppc' = [p \in Pushers |-> IF ppc[p] = "sleep" THEN "lock" ELSE ppc[p]]
  /\ IF data[c] = EOS
       THEN /\ cpc' = [cpc EXCEPT ![c] = "done"]
            /\ UNCHANGED <<n, data>>
       ELSE /\ cpc' = [cpc EXCEPT ![c] = AfterPop(c, n[c] + 1)]
            /\ n' = [n EXCEPT ![c] = n[c] + 1]
            /\ data' = [data EXCEPT ![c] = IF n[c] + 1 < limit[c] THEN Uninit ELSE data[c]]
  /\ UNCHANGED <<confVars, queueVars, producer_mtx_, k, wr, consumer_mtx_,
                 lastSize, histVars>>

\* --------------------------------------------- condition_variable::wait
\* wait may return without a notification; its caller re-locks and re-checks
SpuriousWake ==
  \/ \E p \in ProducerWaiters :
       /\ ppc' = [ppc EXCEPT ![p] = "lock"]
       /\ UNCHANGED <<confVars, queueVars, producer_mtx_, k, wr, popVars, lastSize,
                      histVars>>
  \/ \E c \in ConsumerWaiters :
       /\ cpc' = [cpc EXCEPT ![c] = "lock"]
       /\ UNCHANGED <<confVars, queueVars, pushVars, consumer_mtx_, n, data,
                      lastSize, histVars>>

\* ------------------------------------------------------------- size()
\* mutant: size() reads under consumer_mtx_
SizeCallLocked ==
  /\ consumer_mtx_ = NoThread
  /\ lastSize' = Size
  /\ UNCHANGED <<confVars, queueVars, pushVars, popVars, histVars>>

\* size_t size() { return q_.size(); }  called by any thread, no lock taken
SizeCall ==
  /\ lastSize' = Size
  /\ UNCHANGED <<confVars, queueVars, pushVars, popVars, histVars>>

\* ------------------------------------------------------ specifications
\* a step of a thread inside or around push
PushStep(p) ==
  \/ PushBegin(p)
  \/ PushLock(p)
  \/ PushCheck(p)
  \/ PushBlock(p)
  \/ PushStore(p)
  \/ PushPublish(p)
  \/ PushUnlock(p)
  \/ PushNotify(p)

\* a step of a thread inside or around pop
PopStep(c) ==
  \/ PopBegin(c)
  \/ PopLock(c)
  \/ PopCheck(c)
  \/ PopBlock(c)
  \/ PopFront(c)
  \/ PopRemove(c)
  \/ PopUnlock(c)
  \/ PopNotify(c)

\* a step of some thread
ThreadStep ==
  \/ \E p \in Pushers : PushStep(p)
  \/ \E c \in Consumers : PopStep(c)

Next ==
  \/ ThreadStep
  \/ SpuriousWake

\* buf shared by the threads of main, main's sleep giving no ordering
Spec == Init /\ [][Next]_vars

\* main's sleep outlasts the producer thread: every EOS follows every payload
InitOrdered ==
  /\ Harness
  /\ ordered = TRUE
  /\ Fresh

SpecOrdered == InitOrdered /\ [][Next]_vars

\* the threads of main plus a thread that calls buf.size() at any moment
NextObserved ==
  \/ Next
  \/ SizeCall

\* buf shared by the threads of main (its sleep outlasting the producer
\* thread) and by a caller of size()
SpecObserved == InitOrdered /\ [][NextObserved]_vars

\* capacity 2, one producer pushing 1, 2, 3, and one consumer popping three
\* times that starts once the pushes of 1 and 2 have been made
ScenarioProducer == <<1, 2, 3>>

InitScenario ==
  /\ cap_ = 2
  /\ script = [p \in Pushers |-> IF p = "producer" THEN ScenarioProducer ELSE <<>>]
  /\ limit = [c \in Consumers |-> IF c = "c1" THEN Len(ScenarioProducer) ELSE 0]
  /\ gate = 2
  /\ ordered = FALSE
  /\ Fresh

SpecScenario == InitScenario /\ [][Next]_vars

\* the pushes of main against a single consumer: the other consumer thread
\* makes no pop, so pushes go on after every consumer has stopped
InitStranded ==
  /\ cap_ \in 1 .. MaxCap
  /\ script = [p \in Pushers |-> IF p = "producer" THEN ProducerScript ELSE MainScript]
  /\ limit = [c \in Consumers |-> IF c = "c1" THEN LoopLimit ELSE 0]
  /\ gate = 0
  /\ ordered = FALSE
  /\ Fresh

\* the scheduler runs every thread that stays able to run; a wait need not
\* return without a notification
Fairness ==
  /\ \A p \in Pushers : WF_vars(PushStep(p))
  /\ \A c \in Consumers : WF_vars(PopStep(c))

\* the threads of main under a fair scheduler
FairSpec == Init /\ [][Next]_vars /\ Fairness

SpecStranded == InitStranded /\ [][Next]_vars /\ Fairness

\* ------------------------------------------------------------ claims
\* positions of push between locking producer_mtx_ and lk.unlock()
PushCritical == {"check", "block", "append", "stored", "published", "unlock"}
\* positions of pop between locking consumer_mtx_ and lk.unlock()
PopCritical == {"check", "block", "front", "pop", "unlock"}
\* positions of push after the "not full" check, in q_.push(data)
PushAppending == {"append", "stored", "published"}
\* positions of pop after the "not empty" check, in q_.front() and q_.pop()
PopRemoving == {"front", "pop"}
\* every consumer thread has left its loop
AllStopped == \A c \in Consumers : cpc[c] = "done"

\* positions of push before its wait has found room
PushWaiting == {"lock", "check", "block", "sleep"}

\* how many entries of s equal v
Count(s, v) == Cardinality({i \in 1 .. Len(s) : s[i] = v})
\* how many entries of s are payloads
CountPayloads(s) == Cardinality({i \in 1 .. Len(s) : s[i] # EOS})
\* position of x in s
Pos(s, x) == CHOOSE i \in 1 .. Len(s) : s[i] = x
\* the values passed to the push calls of s
Args(s) == [i \in 1 .. Len(s) |-> ArgOf(s[i])]
\* no thread can take a step (a wait returning spuriously aside)
Quiescent == ~ENABLED ThreadStep
\* every thread has left its loop
RunEnded ==
  /\ \A p \in Pushers : ppc[p] = "done"
  /\ \A c \in Consumers : cpc[c] = "done"

\* C1: in every reachable state 0 <= size <= cap, no step appends a slot when
\* size = cap and no step removes a slot when size = 0.
CapacityInvariant ==
  /\ [](0 <= Size /\ Size <= cap_)
  /\ [][/\ finish' # finish => (Size < cap_ /\ finish' = finish + 1)
        /\ start' # start => (Size > 0 /\ start' = start + 1)]_vars

\* C1 witness: the buffer is full again after a removal and a push finds it full
CapacityWitness ==
  /\ Size = cap_
  /\ start > 0
  /\ \E p \in Pushers : ppc[p] = "block"

\* C2: if push call A returned before push call B began and both slots were
\* removed, A's slot was removed first; the slots leave in the order they
\* were appended.
FifoOrder ==
  /\ IsPrefix(removed, appended)
  /\ \A pr \in precedes :
       (pr[1] \in Range(removed) /\ pr[2] \in Range(removed))
         => Pos(removed, pr[1]) < Pos(removed, pr[2])

\* C2 witness: two calls of different threads, one after the other, both removed
FifoWitness ==
  \E pr \in precedes :
    /\ pr[1][1] # pr[2][1]
    /\ pr[1] \in Range(removed)
    /\ pr[2] \in Range(removed)

\* C3: whenever no append is half done, the values pushed so far are the
\* values the pops have taken followed by the values resident in the queue.
NoLossNoDuplication ==
  (\A p \in Pushers : ppc[p] # "published")
    => Args(appended) = popped \o Resident

\* C4: when every thread of the run has finished, the pops have returned
\* every payload pushed and as many EOS markers as were pushed.
Conservation ==
  RunEnded =>
    /\ CountPayloads(popped) = Pushes("producer")
    /\ Count(popped, EOS) = Pushes("main")

\* C5: with one EOS per consumer pushed after the payloads, once main has
\* pushed them all the run cannot come to rest while a consumer has not stopped.
TerminationExactness ==
  (Quiescent /\ ppc["main"] = "done") => \A c \in Consumers : cpc[c] = "done"

\* C6: the pops that returned EOS are as many as the EOS markers removed
\* from the queue: each marker dequeued is one pop returning EOS.
EosExactlyOnce ==
  Count(popped, EOS) = Count(Args(removed), EOS)

\* C7: with capacity 1 a slot is appended only to an empty queue and removed
\* only from a queue of one, so appends and removals alternate, an append first.
Cap1Alternation ==
  [][cap_ = 1 =>
       /\ finish' # finish => (finish = start /\ finish' = finish + 1)
       /\ start' # start => (finish = start + 1 /\ start' = start + 1)
       /\ Size' \in {0, 1}]_vars

\* C7 witness: capacity 1, a second push waits behind the element of the first
Cap1Witness ==
  /\ cap_ = 1
  /\ Size = 1
  /\ \E p \in Pushers : ppc[p] = "sleep" /\ start > 0

SizeIsSnapshot ==
  /\ [](ENABLED SizeCall)
  /\ [][lastSize' # lastSize =>
          /\ lastSize' = Size
          /\ UNCHANGED <<queueVars, producer_mtx_, consumer_mtx_, ppc, cpc>>]_vars

\* C9 witness: size() has returned the occupancy while both mutexes are held
SizeWitness ==
  /\ lastSize = Size
  /\ Size > 0
  /\ producer_mtx_ # NoThread
  /\ consumer_mtx_ # NoThread

\* C10: when no thread can take a step, a producer asleep in push sees a full
\* buffer and a consumer asleep in pop sees an empty one.
NoStuckWaiter ==
  Quiescent =>
    /\ \A p \in ProducerWaiters : Size = cap_
    /\ \A c \in ConsumerWaiters : Size = 0

\* C11: under fair scheduling no push stays asleep in producer_cv_.wait for
\* ever while the buffer has room: again and again it is awake or the buffer full.
PopUnblocksProducers ==
  \A p \in Pushers : []<>(~(ppc[p] = "sleep" /\ Size < cap_))

\* C12: under fair scheduling no pop stays asleep in consumer_cv_.wait for
\* ever while the buffer holds an element.
PushUnblocksConsumers ==
  \A c \in Consumers : []<>(~(cpc[c] = "sleep" /\ Size > 0))

\* C13: a consumer that has left its loop got EOS from its last pop.
StopsOnlyOnEos ==
  \A c \in Consumers : cpc[c] = "done" => data[c] = EOS

\* C14: a consumer back from pop with a payload calls pop again, one back with
\* EOS stops, and a stopped consumer stays stopped.
ConsumerLatch ==
  [][\A c \in Consumers :
       /\ cpc[c] = "done" => cpc'[c] = "done"
       /\ (cpc[c] = "notify" /\ cpc'[c] # "notify") =>
            IF data[c] = EOS THEN cpc'[c] = "done" ELSE cpc'[c] = "lock"]_vars

\* C15: at most one thread is between locking producer_mtx_ and unlocking it
\* and it owns the mutex, the same for consumer_mtx_, and every step that
\* writes q_ is taken by the owner of the mutex of its side.
PerSideMutualExclusion ==
  /\ [](/\ \A p \in Pushers : ppc[p] \in PushCritical => producer_mtx_ = p
        /\ \A c \in Consumers : cpc[c] \in PopCritical => consumer_mtx_ = c)
  /\ [][/\ (finish' # finish \/ mem' # mem) =>
             (producer_mtx_ # NoThread /\ ppc[producer_mtx_] \in PushAppending)
        /\ start' # start =>
             (consumer_mtx_ # NoThread /\ cpc[consumer_mtx_] \in PopRemoving)]_vars

\* C15 witness: on each side one thread is inside and the other waits for the mutex
MutualExclusionWitness ==
  /\ \E p, q \in Pushers : ppc[p] \in PushAppending /\ ppc[q] = "lock"
  /\ \E c, d \in Consumers : cpc[c] \in PopRemoving /\ cpc[d] = "lock"

\* C16: a thread waiting for the mutex of its side can lock it whenever that
\* mutex is free, whoever holds the mutex of the other side.
IndependentLocks ==
  /\ \A c \in Consumers :
       (cpc[c] = "lock" /\ consumer_mtx_ = NoThread) => ENABLED PopLock(c)
  /\ \A p \in Pushers :
       (ppc[p] = "lock" /\ producer_mtx_ = NoThread) => ENABLED PushLock(p)

\* C16 witness: a producer is inside q_.push while a consumer is inside
\* q_.front / q_.pop, both past their checks
ConcurrentPushPop ==
  \E p \in Pushers, c \in Consumers :
    /\ ppc[p] \in PushAppending
    /\ cpc[c] \in PopRemoving
    /\ producer_mtx_ = p
    /\ consumer_mtx_ = c

\* C17: once every consumer has stopped, nothing is removed and no constructed
\* slot changes; a push whose check finds room appends, unlocks and goes on to
\* its notify with the queue not empty; and while the queue
\* is full nothing is appended and a push that waits goes on waiting.
StrandedPush ==
  /\ [][AllStopped =>
          /\ start' = start
          /\ finish' >= finish
          /\ \A i \in (start + 1) .. finish : mem[i] # Uninit => mem'[i] = mem[i]
          /\ Size = cap_ =>
               /\ finish' = finish
               /\ \A p \in Pushers : ppc[p] \in PushWaiting => ppc'[p] \in PushWaiting]_vars
  /\ \A p \in Pushers :
       (AllStopped /\ ppc[p] = "check" /\ Size < cap_)
         ~> (ppc[p] = "notify" /\ Size > 0)

\* C17 witness: every consumer has stopped, the queue is full with stranded
\* elements and a push sleeps in its wait
StrandedWitness ==
  /\ AllStopped
  /\ Size = cap_
  /\ \E p \in Pushers : ppc[p] = "sleep"
  /\ \A i \in (start + 1) .. finish : mem[i] # Uninit

\* C18: the run of main never comes to rest before every thread has left its
\* loop: a state in which no thread can take a step is one where producer,
\* main and every consumer are done.
HarnessTerminates ==
  Quiescent => RunEnded

====
